---------------------------- MODULE Spec2Model ----------------------------
(***************************************************************************)
(* Model of the Mergington High School activities API (src/src/app.py,     *)
(* src/src/database.py): the relational store (activities, participants,   *)
(* users), the enrollment handlers, the admin CRUD handlers behind the     *)
(* role gate, and JWT issuance / verification.                             *)
(*                                                                         *)
(* Optional values (Python None / a value) are sets with at most one       *)
(* element: {} is None, {v} is v.                                          *)
(* The participants table is a bag of rows <email, activity_id>: the       *)
(* surrogate key Participant.id is never read by the handlers, and nothing *)
(* in the schema makes (activity_id, email) unique, so equal rows may      *)
(* occur more than once.                                                   *)
(***************************************************************************)
EXTENDS Integers, FiniteSets, Sequences, Bags, TLC

(***************************************************************************)
(* Bounds of the model                                                     *)
(***************************************************************************)
\* the max_participants the admin requests carry
MaxCapacity == 1
\* largest activity id the store hands out before create is no longer tried
MaxActivityId == 2
\* last minute of the clock in the token specification
MaxClock == 31
\* largest explicit expires_delta (minutes) passed to create_access_token
MaxDelta == 1

(***************************************************************************)
(* Program constants                                                       *)
(***************************************************************************)
ACCESS_TOKEN_EXPIRE_MINUTES == 30
DEFAULT_EXPIRE_MINUTES == 15
SECRET_KEY == "your-secret-key-change-in-production"
ALGORITHM == "HS256"

\* UserRole enumeration values
UserRole == {"student", "activity_admin", "admin"}

HTTP_200_OK == 200
HTTP_201_CREATED == 201
HTTP_400_BAD_REQUEST == 400
HTTP_401_UNAUTHORIZED == 401
HTTP_403_FORBIDDEN == 403
HTTP_404_NOT_FOUND == 404
\* an exception no handler catches: the framework answers 500
HTTP_500_INTERNAL_SERVER_ERROR == 500

(***************************************************************************)
(* Input domains                                                           *)
(***************************************************************************)
ActivityNames == {"Chess Club", "Robotics Club"}
\* the emails of the enrollment requests: a seeded participant and a newcomer
Emails == {"michael@mergington.edu", "emma@mergington.edu"}
Capacities == {MaxCapacity}

VARIABLES
    activities,     \* table activities: set of rows [id, name, description, schedule, max_participants]
    participants,   \* table participants: bag of rows [email, activity_id]
    users,          \* table users: set of rows [username, email, hashed_password, role]
    clock,          \* datetime.utcnow(), in minutes
    token,          \* the bearer token in flight in the token specification ({} when none)
    req,            \* the in-flight signup requests of the concurrent specification
    last            \* the last request served and its response

vars == <<activities, participants, users, clock, token, req, last>>


(***************************************************************************)
(* Store primitives                                                        *)
(***************************************************************************)
\* an absent optional value (Python None)
None == {}

\* the value of an optional that is present
Value(opt) == CHOOSE v \in opt : TRUE

Max(S) == CHOOSE m \in S : \A x \in S : x <= m

\* INTEGER PRIMARY KEY of SQLite: a new row gets the largest id in the table plus one
NextId(rows) == IF rows = {} THEN 1 ELSE Max({r.id : r \in rows}) + 1

\* select(Activity).where(Activity.name == activity_name)
ActivityByName(acts, activity_name) == {a \in acts : a.name = activity_name}

\* Participant(email=email, activity_id=activity.id)
Participant(email, activity_id) == [email |-> email, activity_id |-> activity_id]

\* select(Participant).where(activity_id == id, email == email): the number of matching rows
MatchingParticipants(parts, activity_id, email) == CopiesIn(Participant(email, activity_id), parts)

\* the rows activity.participants loads: the participant rows whose activity_id is the activity's id
ParticipantsOf(parts, activity_id) ==
    LET rows == {r \in BagToSet(parts) : r.activity_id = activity_id}
    IN  [r \in rows |-> parts[r]]

\* len(activity.participants)
ParticipantCount(parts, activity_id) == BagCardinality(ParticipantsOf(parts, activity_id))

\* mutant of CascadeDelete: the relationship carries no cascade, the rows stay
CascadeDelete_NoCascade(parts, activity_id) == parts

\* session.delete(activity) with cascade="all, delete-orphan": the activity's participant rows go too
CascadeDelete(parts, activity_id) ==
    LET rows == {r \in BagToSet(parts) : r.activity_id # activity_id}
    IN  [r \in rows |-> parts[r]]

(***************************************************************************)
(* Responses                                                               *)
(***************************************************************************)
Response(status, detail) == [status |-> status, detail |-> detail]

OK == Response(HTTP_200_OK, "OK")
ActivityNotFound == Response(HTTP_404_NOT_FOUND, "Activity not found")
AlreadySignedUp == Response(HTTP_400_BAD_REQUEST, "Student is already signed up")
ActivityFull == Response(HTTP_400_BAD_REQUEST, "Activity is full")
NotSignedUp == Response(HTTP_400_BAD_REQUEST, "Student is not signed up for this activity")
ActivityExists == Response(HTTP_400_BAD_REQUEST, "Activity with this name already exists")
credentials_exception == Response(HTTP_401_UNAUTHORIZED, "Could not validate credentials")
NotEnoughPermissions == Response(HTTP_403_FORBIDDEN, "Not enough permissions")
Created == Response(HTTP_201_CREATED, "Created")
UsernameRegistered == Response(HTTP_400_BAD_REQUEST, "Username already registered")
EmailRegistered == Response(HTTP_400_BAD_REQUEST, "Email already registered")
\* scalar_one_or_none() on more than one row
MultipleResultsFound == Response(HTTP_500_INTERNAL_SERVER_ERROR, "MultipleResultsFound")
\* UserRole(role) on a value outside the enumeration
RoleValueError == Response(HTTP_500_INTERNAL_SERVER_ERROR, "ValueError")


(***************************************************************************)
(* Authentication and the role gate                                        *)
(***************************************************************************)
\* create_access_token(data, expires_delta) called at time now.  A timedelta of
\* zero is falsy in Python, so "if expires_delta:" takes the else branch for it.
create_access_token(data, expires_delta, now) ==
    LET expire == IF expires_delta # None /\ Value(expires_delta) # 0
                  THEN now + Value(expires_delta)
                  ELSE now + DEFAULT_EXPIRE_MINUTES
    IN  [sub |-> data.sub, role |-> data.role, exp |-> expire, key |-> SECRET_KEY]

\* jwt.decode(token, SECRET_KEY, algorithms=[ALGORITHM]) raises JWTError: the
\* signature was not made with SECRET_KEY, or the exp claim lies before now
JWTError(tok, now) == tok.key # SECRET_KEY \/ tok.exp < now

\* get_current_user(token, session) at time now: the response and the user row found
get_current_user(tok, usrs, now) ==
    IF JWTError(tok, now) THEN [response |-> credentials_exception, user |-> None]
    ELSE IF tok.sub = None THEN [response |-> credentials_exception, user |-> None]
    ELSE IF tok.role # None /\ ~(tok.role \subseteq UserRole)
         THEN [response |-> RoleValueError, user |-> None]
    ELSE LET found == {u \in usrs : u.username = Value(tok.sub)}
         IN  IF found = {} THEN [response |-> credentials_exception, user |-> None]
             ELSE [response |-> OK, user |-> found]

\* mutant of role_checker: the membership test is inverted
role_checker_Inverted(current_user, allowed_roles) ==
    IF current_user.role \in allowed_roles THEN NotEnoughPermissions ELSE OK

\* role_checker of require_role(*allowed_roles), for an authenticated user row
role_checker(current_user, allowed_roles) ==
    IF current_user.role \notin allowed_roles THEN NotEnoughPermissions ELSE OK

\* the roles the three admin endpoints pass to require_role
AdminRoles == {"admin", "activity_admin"}

\* Depends(require_role(UserRole.ADMIN, UserRole.ACTIVITY_ADMIN)): get_current_user, then role_checker
require_role(tok, usrs, now, allowed_roles) ==
    LET auth == get_current_user(tok, usrs, now)
    IN  IF auth.response # OK THEN auth
        ELSE [response |-> role_checker(Value(auth.user), allowed_roles), user |-> auth.user]

(***************************************************************************)
(* Handlers, as functions of the store                                     *)
(***************************************************************************)
\* GET /activities: the mapping from activity name to its fields and participant emails
get_activities(acts, parts) ==
    [n \in {a.name : a \in acts} |->
        LET activity == CHOOSE a \in acts : a.name = n
            loaded == ParticipantsOf(parts, activity.id)
        IN  [description |-> activity.description,
             schedule |-> activity.schedule,
             max_participants |-> activity.max_participants,
             participants |-> [e \in {r.email : r \in BagToSet(loaded)} |->
                                  loaded[Participant(e, activity.id)]]]]

\* mutant of signup_for_activity: the capacity check comes before the duplicate check
signup_for_activity_CapacityFirst(acts, parts, activity_name, email) ==
    LET found == ActivityByName(acts, activity_name)
    IN  IF found = {} THEN [response |-> ActivityNotFound, participants |-> parts]
        ELSE LET activity == CHOOSE a \in found : TRUE
                 existing == MatchingParticipants(parts, activity.id, email)
             IN  IF ParticipantCount(parts, activity.id) >= activity.max_participants
                 THEN [response |-> ActivityFull, participants |-> parts]
                 ELSE IF existing > 1 THEN [response |-> MultipleResultsFound, participants |-> parts]
                 ELSE IF existing = 1 THEN [response |-> AlreadySignedUp, participants |-> parts]
                 ELSE [response |-> OK,
                       participants |-> parts (+) SetToBag({Participant(email, activity.id)})]

\* POST /activities/{activity_name}/signup?email=
signup_for_activity(acts, parts, activity_name, email) ==
    LET found == ActivityByName(acts, activity_name)
    IN  IF found = {} THEN [response |-> ActivityNotFound, participants |-> parts]
        ELSE LET activity == CHOOSE a \in found : TRUE
                 existing == MatchingParticipants(parts, activity.id, email)
             IN  IF existing > 1 THEN [response |-> MultipleResultsFound, participants |-> parts]
                 ELSE IF existing = 1 THEN [response |-> AlreadySignedUp, participants |-> parts]
                 ELSE IF ParticipantCount(parts, activity.id) >= activity.max_participants
                      THEN [response |-> ActivityFull, participants |-> parts]
                 ELSE [response |-> OK,
                       participants |-> parts (+) SetToBag({Participant(email, activity.id)})]

\* mutant of unregister_from_activity: the delete matches on the activity alone
unregister_from_activity_WholeActivity(acts, parts, activity_name, email) ==
    LET found == ActivityByName(acts, activity_name)
    IN  IF found = {} THEN [response |-> ActivityNotFound, participants |-> parts]
        ELSE LET activity == CHOOSE a \in found : TRUE
                 existing == MatchingParticipants(parts, activity.id, email)
             IN  IF existing > 1 THEN [response |-> MultipleResultsFound, participants |-> parts]
                 ELSE IF existing = 0 THEN [response |-> NotSignedUp, participants |-> parts]
                 ELSE [response |-> OK,
                       participants |-> [r \in {x \in BagToSet(parts) : x.activity_id # activity.id}
                                            |-> parts[r]]]

\* DELETE /activities/{activity_name}/unregister?email=
unregister_from_activity(acts, parts, activity_name, email) ==
    LET found == ActivityByName(acts, activity_name)
    IN  IF found = {} THEN [response |-> ActivityNotFound, participants |-> parts]
        ELSE LET activity == CHOOSE a \in found : TRUE
                 existing == MatchingParticipants(parts, activity.id, email)
             IN  IF existing > 1 THEN [response |-> MultipleResultsFound, participants |-> parts]
                 ELSE IF existing = 0 THEN [response |-> NotSignedUp, participants |-> parts]
                 ELSE [response |-> OK,
                       participants |-> parts (-) SetToBag({Participant(email, activity.id)})]

\* POST /admin/activities, past the role gate; activity is the ActivityCreate body
create_activity(acts, activity_name, activity) ==
    IF ActivityByName(acts, activity_name) # {}
    THEN [response |-> ActivityExists, activities |-> acts]
    ELSE [response |-> OK,
          activities |-> acts \cup {[id |-> NextId(acts),
                                     name |-> activity_name,
                                     description |-> Value(activity.description),
                                     schedule |-> Value(activity.schedule),
                                     max_participants |-> Value(activity.max_participants)]}]

\* mutant of update_activity: a provided schedule is assigned to the description
update_activity_WrongField(acts, activity_name, activity_update) ==
    LET found == ActivityByName(acts, activity_name)
    IN  IF found = {} THEN [response |-> ActivityNotFound, activities |-> acts]
        ELSE LET activity == CHOOSE a \in found : TRUE
                 updated == [activity EXCEPT
                     !.description = IF activity_update.schedule # None
                                     THEN Value(activity_update.schedule)
                                     ELSE IF activity_update.description # None
                                     THEN Value(activity_update.description) ELSE @,
                     !.max_participants = IF activity_update.max_participants # None
                                          THEN Value(activity_update.max_participants) ELSE @]
             IN  [response |-> OK, activities |-> (acts \ {activity}) \cup {updated}]

\* PUT /admin/activities/{activity_name}, past the role gate; activity_update is the ActivityUpdate body
update_activity(acts, activity_name, activity_update) ==
    LET found == ActivityByName(acts, activity_name)
    IN  IF found = {} THEN [response |-> ActivityNotFound, activities |-> acts]
        ELSE LET activity == CHOOSE a \in found : TRUE
                 updated == [activity EXCEPT
                     !.description = IF activity_update.description # None
                                     THEN Value(activity_update.description) ELSE @,
                     !.schedule = IF activity_update.schedule # None
                                  THEN Value(activity_update.schedule) ELSE @,
                     !.max_participants = IF activity_update.max_participants # None
                                          THEN Value(activity_update.max_participants) ELSE @]
             IN  [response |-> OK, activities |-> (acts \ {activity}) \cup {updated}]

\* DELETE /admin/activities/{activity_name}, past the role gate
delete_activity(acts, parts, activity_name) ==
    LET found == ActivityByName(acts, activity_name)
    IN  IF found = {} THEN [response |-> ActivityNotFound, activities |-> acts, participants |-> parts]
        ELSE LET activity == CHOOSE a \in found : TRUE
             IN  [response |-> OK,
                  activities |-> acts \ {activity},
                  participants |-> CascadeDelete(parts, activity.id)]


(***************************************************************************)
(* Initial store                                                           *)
(***************************************************************************)
\* seed_initial_data: the first seeded activity and its two participants (the
\* other seeded activities are rows no modelled request names)
SeedActivities ==
    {[id |-> 1, name |-> "Chess Club",
      description |-> "Learn strategies and compete in chess tournaments",
      schedule |-> "Fridays, 3:30 PM - 5:00 PM",
      max_participants |-> 12]}

SeedParticipants ==
    SetToBag({Participant("michael@mergington.edu", 1), Participant("daniel@mergington.edu", 1)})

\* pwd_context.hash(password): the salt and the plaintext it was made from
get_password_hash(password, salt) == <<salt, password>>

\* the users table after three registrations through /auth/register (the
\* database file outlives the process; nothing seeds or deletes users)
RegisteredUsers ==
    {[username |-> "alice", email |-> "alice@mergington.edu",
      hashed_password |-> get_password_hash("pw-a", 1), role |-> "admin"],
     [username |-> "bob", email |-> "bob@mergington.edu",
      hashed_password |-> get_password_hash("pw-b", 2), role |-> "student"],
     [username |-> "carol", email |-> "carol@mergington.edu",
      hashed_password |-> get_password_hash("pw-c", 3), role |-> "activity_admin"]}

\* a request body with no field set
NoBody == [description |-> None, schedule |-> None, max_participants |-> None]

\* the record of a served request
Served(op, name, email, body, role, response) ==
    [op |-> op, name |-> name, email |-> email, body |-> body, role |-> role, response |-> response]

NoRequest == Served("none", "", "", NoBody, None, OK)

\* the slots of the concurrent specification
Requests == {1, 2}

IdleRequest == [pc |-> "idle", activity_name |-> "", email |-> "", activity |-> None, response |-> OK]

Init ==
    /\ activities = SeedActivities
    /\ participants = SeedParticipants
    /\ users = RegisteredUsers
    /\ clock = 0
    /\ token = None
    /\ req = [i \in Requests |-> IdleRequest]
    /\ last = NoRequest

(***************************************************************************)
(* Requests served one at a time                                           *)
(***************************************************************************)
\* the bearer tokens a client can present: the one /auth/login issues now to
\* each registered user, and one signed with a key that is not SECRET_KEY
login_token(user, now) ==
    create_access_token([sub |-> {user.username}, role |-> {user.role}],
                        {ACCESS_TOKEN_EXPIRE_MINUTES}, now)

ForgedToken == [sub |-> {"alice"}, role |-> {"admin"}, exp |-> ACCESS_TOKEN_EXPIRE_MINUTES, key |-> "guessed-key"]

RequestTokens == {login_token(u, clock) : u \in users} \cup {ForgedToken}

\* the role of the authenticated user, None when authentication failed
RoleOf(auth) == IF auth.user = None THEN None ELSE {Value(auth.user).role}

\* the ActivityCreate bodies of the modelled requests (they carry the texts of
\* the seeded activity, so that an activity's texts range over two values)
CreateBodies ==
    {[description |-> {"Learn strategies and compete in chess tournaments"},
      schedule |-> {"Fridays, 3:30 PM - 5:00 PM"},
      max_participants |-> {c}] : c \in Capacities}

\* the ActivityUpdate bodies of the modelled requests: every subset of the fields
UpdateBodies ==
    [description : {None, {"Play chess and compete"}},
     schedule : {None, {"Saturdays, 10:00 AM - 11:30 AM"}},
     max_participants : {None} \cup {{c} : c \in Capacities}]

\* the requests to an admin endpoint: every name and body with the token of the
\* user of role admin; the seeded name and one body with every other token
AdminRequest(tok, activity_name, body, bodies) ==
    \/ \E u \in users : u.role = "admin" /\ tok = login_token(u, clock)
    \/ activity_name = "Chess Club" /\ body = (CHOOSE b \in bodies : TRUE)

GetActivities ==
    /\ last' = Served("get_activities", "", "", NoBody, None, OK)
    /\ UNCHANGED <<activities, participants, users, clock, token, req>>

Signup ==
    \E activity_name \in ActivityNames, email \in Emails :
        \E r \in {signup_for_activity(activities, participants, activity_name, email)} :
            /\ participants' = r.participants
            /\ last' = Served("signup", activity_name, email, NoBody, None, r.response)
            /\ UNCHANGED <<activities, users, clock, token, req>>

Unregister ==
    \E activity_name \in ActivityNames, email \in Emails :
        \E r \in {unregister_from_activity(activities, participants, activity_name, email)} :
            /\ participants' = r.participants
            /\ last' = Served("unregister", activity_name, email, NoBody, None, r.response)
            /\ UNCHANGED <<activities, users, clock, token, req>>

CreateActivity ==
    /\ NextId(activities) <= MaxActivityId
    /\ \E tok \in RequestTokens, activity_name \in ActivityNames, activity \in CreateBodies :
         /\ AdminRequest(tok, activity_name, activity, CreateBodies)
         /\ \E auth \in {require_role(tok, users, clock, AdminRoles)} :
              \E r \in {IF auth.response # OK
                        THEN [response |-> auth.response, activities |-> activities]
                        ELSE create_activity(activities, activity_name, activity)} :
                /\ activities' = r.activities
                /\ last' = Served("create_activity", activity_name, "", activity,
                                  RoleOf(auth), r.response)
                /\ UNCHANGED <<participants, users, clock, token, req>>

UpdateActivity ==
    \E tok \in RequestTokens, activity_name \in ActivityNames, activity_update \in UpdateBodies :
      /\ AdminRequest(tok, activity_name, activity_update, UpdateBodies)
      /\ \E auth \in {require_role(tok, users, clock, AdminRoles)} :
           \E r \in {IF auth.response # OK
                     THEN [response |-> auth.response, activities |-> activities]
                     ELSE update_activity(activities, activity_name, activity_update)} :
             /\ activities' = r.activities
             /\ last' = Served("update_activity", activity_name, "", activity_update,
                               RoleOf(auth), r.response)
             /\ UNCHANGED <<participants, users, clock, token, req>>

DeleteActivity ==
    \E tok \in RequestTokens, activity_name \in ActivityNames :
      /\ AdminRequest(tok, activity_name, NoBody, {NoBody})
      /\ \E auth \in {require_role(tok, users, clock, AdminRoles)} :
           \E r \in {IF auth.response # OK
                     THEN [response |-> auth.response, activities |-> activities,
                           participants |-> participants]
                     ELSE delete_activity(activities, participants, activity_name)} :
             /\ activities' = r.activities
             /\ participants' = r.participants
             /\ last' = Served("delete_activity", activity_name, "", NoBody,
                               RoleOf(auth), r.response)
             /\ UNCHANGED <<users, clock, token, req>>

Next ==
    \/ GetActivities
    \/ Signup
    \/ Unregister
    \/ CreateActivity
    \/ UpdateActivity
    \/ DeleteActivity

Spec == Init /\ [][Next]_vars


(***************************************************************************)
(* Claims about requests served one at a time (Spec)                       *)
(***************************************************************************)
\* the store is left as it was by the step
StoreUnchanged == activities' = activities /\ participants' = participants /\ users' = users

\* the request recorded by the step came from a user the role gate admits
PassedGate(served) == served.role # None /\ served.role \subseteq AdminRoles

\* C1: in every reachable state, every activity has at most max_participants
\* participant rows.
C1_CountWithinMax ==
    \A a \in activities : ParticipantCount(participants, a.id) <= a.max_participants

C5_RoleGate ==
    [][last'.op \in {"create_activity", "update_activity", "delete_activity"} =>
        /\ last'.role = {"student"} =>
              last'.response = NotEnoughPermissions /\ StoreUnchanged
        /\ (last'.role = {"admin"} \/ last'.role = {"activity_admin"}) =>
              last'.response.status \notin {HTTP_401_UNAUTHORIZED, HTTP_403_FORBIDDEN}
        /\ ~StoreUnchanged => last'.role # None /\ last'.role # {"student"}
    ]_vars

\* C5 witness: a student's create request was answered Forbidden.
C5_StudentForbiddenReached ==
    /\ last.op = "create_activity"
    /\ last.role = {"student"}
    /\ last.response = NotEnoughPermissions

\* C8: a delete of an existing activity removes it and every participant row
\* with its id and leaves the other rows alone, after which a create with the
\* same name would succeed; a create of an absent name succeeds and the new
\* activity lists no participants; a delete of an absent name is NotFound.
C8_DeleteCascade ==
    [][/\ (last'.op = "delete_activity" /\ PassedGate(last')) =>
            LET found == {a \in activities : a.name = last'.name}
            IN  IF found = {}
                THEN last'.response = ActivityNotFound /\ StoreUnchanged
                ELSE LET a == CHOOSE x \in found : TRUE
                     IN  /\ last'.response = OK
                         /\ activities' = activities \ {a}
                         /\ \A r \in BagToSet(participants') : r.activity_id # a.id
                         /\ \A r \in BagToSet(participants) :
                               r.activity_id # a.id => CopiesIn(r, participants') = CopiesIn(r, participants)
                         /\ BagToSet(participants') \subseteq BagToSet(participants)
                         /\ \A b \in CreateBodies :
                               create_activity(activities', last'.name, b).response = OK
       /\ (last'.op = "create_activity" /\ PassedGate(last')
              /\ ~\E a \in activities : a.name = last'.name) =>
            /\ last'.response = OK
            /\ last'.name \in DOMAIN get_activities(activities', participants')
            /\ get_activities(activities', participants')[last'.name].participants = EmptyBag
    ]_vars

\* C8 witness: Chess Club, seeded with participants, has been deleted and
\* created again, and lists no participants.
C8_RecreatedReached ==
    /\ last.op = "create_activity"
    /\ last.name = "Chess Club"
    /\ last.response = OK
    /\ get_activities(activities, participants)["Chess Club"].participants = EmptyBag

\* C9: an unregister of an email with no row in an existing activity is
\* answered "not signed up" and changes nothing; a successful unregister
\* removes the one row of the pair and nothing else.
C9_UnregisterFrame ==
    [][last'.op = "unregister" =>
        LET found == {a \in activities : a.name = last'.name}
        IN  found # {} =>
            LET a == CHOOSE x \in found : TRUE
                row == [email |-> last'.email, activity_id |-> a.id]
            IN  IF ~BagIn(row, participants)
                THEN last'.response = NotSignedUp /\ StoreUnchanged
                ELSE /\ last'.response = OK
                     /\ CopiesIn(row, participants') = CopiesIn(row, participants) - 1
                     /\ \A r \in BagToSet(participants) \cup BagToSet(participants') :
                           r # row => CopiesIn(r, participants') = CopiesIn(r, participants)
                     /\ activities' = activities /\ users' = users
    ]_vars

\* C9 witness: an unregister succeeded and the activity still has a participant.
C9_UnregisteredReached ==
    /\ last.op = "unregister"
    /\ last.response = OK
    /\ \E a \in activities :
         a.name = last.name /\ ParticipantCount(participants, a.id) > 0

\* C10: an update of an existing activity sets exactly the fields its body
\* provides; the id, the name, the other fields, the participants and the other
\* activities stay, and the listing differs in those fields only; an update of
\* an absent name is NotFound.
C10_UpdateFrame ==
    [][(last'.op = "update_activity" /\ PassedGate(last')) =>
        LET found == {a \in activities : a.name = last'.name}
            body == last'.body
        IN  IF found = {}
            THEN last'.response = ActivityNotFound /\ StoreUnchanged
            ELSE \E a \in found, b \in {x \in activities' : x.name = last'.name} :
                   \E before \in {get_activities(activities, participants)[a.name]},
                      after \in {get_activities(activities', participants')[a.name]} :
                     /\ last'.response = OK
                     /\ participants' = participants /\ users' = users
                     /\ activities' \ {b} = activities \ {a}
                     /\ b.id = a.id
                     /\ b.name = a.name
                     /\ b.description = (IF body.description = None THEN a.description
                                         ELSE Value(body.description))
                     /\ b.schedule = (IF body.schedule = None THEN a.schedule
                                      ELSE Value(body.schedule))
                     /\ b.max_participants = (IF body.max_participants = None THEN a.max_participants
                                              ELSE Value(body.max_participants))
                     /\ after.participants = before.participants
                     /\ after.description = b.description
                     /\ after.schedule = b.schedule
                     /\ after.max_participants = b.max_participants
                     /\ \A o \in activities \ {a} :
                           get_activities(activities', participants')[o.name]
                               = get_activities(activities, participants)[o.name]
    ]_vars

\* C10 witness: a created activity was updated in its schedule alone, and the
\* listing shows the new schedule beside the description it was created with.
C10_OneFieldUpdatedReached ==
    /\ last.op = "update_activity"
    /\ last.response = OK
    /\ last.name = "Robotics Club"
    /\ last.body.description = None /\ last.body.max_participants = None
    /\ last.body.schedule = {"Saturdays, 10:00 AM - 11:30 AM"}
    /\ get_activities(activities, participants)["Robotics Club"].schedule = "Saturdays, 10:00 AM - 11:30 AM"
    /\ get_activities(activities, participants)["Robotics Club"].description
           = "Learn strategies and compete in chess tournaments"


(***************************************************************************)
(* Token issuance and verification (SpecToken)                             *)
(***************************************************************************)
\* the payloads handed to create_access_token: with and without a subject, of a
\* registered and of an unknown user, with a role of the enumeration, without
\* a role, and with a role outside the enumeration
TokenPayloads ==
    [sub : {None, {"alice"}, {"mallory"}}, role : {None, {"admin"}, {"teacher"}}]

\* the expires_delta arguments: absent, explicit minutes from zero up, and the login's
ExpiresDeltas == {None} \cup {{d} : d \in 0..MaxDelta} \cup {{ACCESS_TOKEN_EXPIRE_MINUTES}}

\* create_access_token is called now; the token goes to the client
IssueToken ==
    /\ token = None
    /\ \E data \in TokenPayloads, expires_delta \in ExpiresDeltas :
         token' = {[jwt |-> create_access_token(data, expires_delta, clock),
                    expires_delta |-> expires_delta,
                    issued_at |-> clock]}
    /\ last' = Served("create_access_token", "", "", NoBody, None, OK)
    /\ UNCHANGED <<activities, participants, users, clock, req>>

\* the client replaces the signature by one made without SECRET_KEY
ForgeToken ==
    /\ token # None
    /\ Value(token).jwt.key = SECRET_KEY
    /\ token' = {[Value(token) EXCEPT !.jwt.key = "guessed-key"]}
    /\ last' = Served("forge", "", "", NoBody, None, OK)
    /\ UNCHANGED <<activities, participants, users, clock, req>>

\* GET /auth/me with the token: get_current_user at the current time
VerifyToken ==
    /\ token # None
    /\ \E auth \in {get_current_user(Value(token).jwt, users, clock)} :
         last' = Served("get_current_user", "", "", NoBody, RoleOf(auth), auth.response)
    /\ UNCHANGED <<activities, participants, users, clock, token, req>>

\* a minute passes
Tick ==
    /\ clock < MaxClock
    /\ clock' = clock + 1
    /\ UNCHANGED <<activities, participants, users, token, req, last>>

NextToken ==
    \/ IssueToken
    \/ ForgeToken
    \/ VerifyToken
    \/ Tick

SpecToken == Init /\ [][NextToken]_vars

\* the step is a verification of the token in flight
VerifyStep == last'.op = "get_current_user" /\ clock' = clock /\ token' = token /\ token # None

\* C6: a token issued with an expires_delta of zero is rejected on verification,
\* at the time of issue or any later time.
C6_ZeroTtlRejected ==
    [][(VerifyStep /\ Value(token).expires_delta = {0} /\ clock >= Value(token).issued_at) =>
        last'.response = credentials_exception
    ]_vars

\* C7: a token with an invalid signature, without a subject, with a role
\* outside the enumeration, or past its expiry is answered Unauthorized, and
\* yields no user.
C7_InvalidTokenUnauthorized ==
    [][VerifyStep =>
        LET jwt == Value(token).jwt
            invalid == \/ jwt.key # SECRET_KEY
                       \/ jwt.sub = None
                       \/ (jwt.role # None /\ Value(jwt.role) \notin UserRole)
                       \/ jwt.exp < clock
        IN  invalid => last'.response = credentials_exception /\ last'.role = None
    ]_vars

(***************************************************************************)
(* Two signup requests in flight (SpecRace)                                *)
(***************************************************************************)
\* the store when the two requests arrive: the seed, and Robotics Club as
\* an admin created it, with no participant yet
InitRace ==
    /\ \E c \in Capacities :
         activities = SeedActivities \cup
             {[id |-> 2, name |-> "Robotics Club",
               description |-> "Learn strategies and compete in chess tournaments",
               schedule |-> "Fridays, 3:30 PM - 5:00 PM", max_participants |-> c]}
    /\ participants = SeedParticipants
    /\ users = RegisteredUsers
    /\ clock = 0
    /\ token = None
    /\ req = [i \in Requests |-> IdleRequest]
    /\ last = NoRequest

\* request i arrives
StartSignup(i) ==
    /\ req[i].pc = "idle"
    /\ \E activity_name \in ActivityNames, email \in Emails :
         req' = [req EXCEPT ![i] = [@ EXCEPT !.pc = "find_activity",
                                             !.activity_name = activity_name,
                                             !.email = email]]
    /\ UNCHANGED <<activities, participants, users, clock, token, last>>

\* await session.execute(select(Activity)...); 404 when there is none
FindActivity(i) ==
    /\ req[i].pc = "find_activity"
    /\ LET found == ActivityByName(activities, req[i].activity_name)
       IN  req' = [req EXCEPT ![i] =
               IF found = {}
               THEN [@ EXCEPT !.pc = "done", !.response = ActivityNotFound]
               ELSE [@ EXCEPT !.pc = "check_existing", !.activity = found]]
    /\ UNCHANGED <<activities, participants, users, clock, token, last>>

\* await session.execute(select(Participant)...); 400 when the pair has a row
CheckExisting(i) ==
    /\ req[i].pc = "check_existing"
    /\ LET existing == MatchingParticipants(participants, Value(req[i].activity).id, req[i].email)
       IN  req' = [req EXCEPT ![i] =
               IF existing > 1 THEN [@ EXCEPT !.pc = "done", !.response = MultipleResultsFound]
               ELSE IF existing = 1 THEN [@ EXCEPT !.pc = "done", !.response = AlreadySignedUp]
               ELSE [@ EXCEPT !.pc = "check_full"]]
    /\ UNCHANGED <<activities, participants, users, clock, token, last>>

\* len(activity.participants) loads the rows; 400 when the count has reached the maximum
CheckFull(i) ==
    /\ req[i].pc = "check_full"
    /\ LET activity == Value(req[i].activity)
       IN  req' = [req EXCEPT ![i] =
               IF ParticipantCount(participants, activity.id) >= activity.max_participants
               THEN [@ EXCEPT !.pc = "done", !.response = ActivityFull]
               ELSE [@ EXCEPT !.pc = "commit"]]
    /\ UNCHANGED <<activities, participants, users, clock, token, last>>

\* session.add(new_participant); await session.commit()
Commit(i) ==
    /\ req[i].pc = "commit"
    /\ participants' = participants (+)
                           SetToBag({Participant(req[i].email, Value(req[i].activity).id)})
    /\ req' = [req EXCEPT ![i] = [@ EXCEPT !.pc = "done", !.response = OK]]
    /\ UNCHANGED <<activities, users, clock, token, last>>

NextRace ==
    \E i \in Requests :
        \/ StartSignup(i)
        \/ FindActivity(i)
        \/ CheckExisting(i)
        \/ CheckFull(i)
        \/ Commit(i)

SpecRace == InitRace /\ [][NextRace]_vars

\* both requests have been answered
AllDone == \A i \in Requests : req[i].pc = "done"

\* the participants and the two responses are those of request i served whole, then request j
SerialOrder(i, j) ==
    LET first == signup_for_activity(activities, SeedParticipants, req[i].activity_name, req[i].email)
        second == signup_for_activity(activities, first.participants, req[j].activity_name, req[j].email)
    IN  /\ req[i].response = first.response
        /\ req[j].response = second.response
        /\ participants = second.participants

\* C2: no (activity_id, email) pair has more than one participant row, and of
\* two signups of the same pair only one succeeds.
C2_PairUnique ==
    /\ \A r \in BagToSet(participants) : CopiesIn(r, participants) <= 1
    /\ ~(/\ AllDone
         /\ req[1].activity_name = req[2].activity_name
         /\ req[1].email = req[2].email
         /\ req[1].response = OK
         /\ req[2].response = OK)

\* C3: once both requests are answered, the participants table and the two
\* responses are those of one of the two serial orders.
C3_Serializable == AllDone => (SerialOrder(1, 2) \/ SerialOrder(2, 1))

(***************************************************************************)
(* Registration, and every write path together (SpecAll)                   *)
(***************************************************************************)
\* User(username, email, hashed_password=get_password_hash(password), role)
User(user_data, salt) ==
    [username |-> user_data.username, email |-> user_data.email,
     hashed_password |-> get_password_hash(user_data.password, salt),
     role |-> user_data.role]

\* mutant of register: the row is added and committed before the email check
register_AddBeforeEmailCheck(usrs, user_data, salt) ==
    IF \E u \in usrs : u.username = user_data.username
    THEN [response |-> UsernameRegistered, users |-> usrs]
    ELSE IF \E u \in usrs : u.email = user_data.email
    THEN [response |-> EmailRegistered, users |-> usrs \cup {User(user_data, salt)}]
    ELSE [response |-> Created, users |-> usrs \cup {User(user_data, salt)}]

\* POST /auth/register: the username check, the email check, then the insert
register(usrs, user_data, salt) ==
    IF \E u \in usrs : u.username = user_data.username
    THEN [response |-> UsernameRegistered, users |-> usrs]
    ELSE IF \E u \in usrs : u.email = user_data.email
    THEN [response |-> EmailRegistered, users |-> usrs]
    ELSE [response |-> Created, users |-> usrs \cup {User(user_data, salt)}]

\* the UserRegister bodies of the modelled requests: a registered and a new
\* username, a registered and a new email, the default role
RegisterBodies ==
    [username : {"alice", "dave"},
     email : {"alice@mergington.edu", "dave@mergington.edu"},
     password : {"pw-d"},
     role : {"student"}]

\* the salt pwd_context.hash draws for the modelled registration
Salts == {4}

Register ==
    \E user_data \in RegisterBodies, salt \in Salts :
        \E r \in {register(users, user_data, salt)} :
            /\ users' = r.users
            /\ last' = Served("register", user_data.username, user_data.email, NoBody,
                              None, r.response)
            /\ UNCHANGED <<activities, participants, clock, token, req>>

NextAll ==
    \/ Next
    \/ Register

SpecAll == Init /\ [][NextAll]_vars

\* the operations that write to the store
WriteOps == {"signup", "unregister", "create_activity", "update_activity",
             "delete_activity", "register"}

\* NotFound, Conflict, CapacityExceeded, NotRegistered, Unauthorized, Forbidden
ErrorStatuses == {HTTP_400_BAD_REQUEST, HTTP_401_UNAUTHORIZED, HTTP_403_FORBIDDEN,
                  HTTP_404_NOT_FOUND}

\* C11: a step that serves a signup, unregister, create, update, delete or
\* register request and answers 400, 401, 403 or 404 leaves the activities,
\* participants and users tables exactly as they were before the request.
C11_NoPartialMutation ==
    [][(last'.op \in WriteOps /\ last'.response.status \in ErrorStatuses) => StoreUnchanged]_vars

\* a registration of a new username was refused because its email is taken
C11_RegisterRefusedReached ==
    /\ last.op = "register"
    /\ last.name = "dave"
    /\ last.response = EmailRegistered

=============================================================================
